---- MODULE Spec2Model ----
(***************************************************************************)
(* solar::ThreadSafeQueue<T>: a std::deque guarded by one std::mutex and   *)
(* one std::condition_variable, used by NThreads threads.  Every thread    *)
(* may call every public operation.  One action is one atomic step of the  *)
(* code: a call, a lock acquisition, the critical section up to the        *)
(* release of the lock, or a notify issued after the release.              *)
(***************************************************************************)
EXTENDS Integers, Sequences, FiniteSets, TLC

\* Number of threads sharing the queue.
NThreads == 3
\* Number of push calls made in a behaviour; the k-th call pushes item k.
MaxPush == 2
\* Number of calls (of any operation) made in a behaviour.
MaxCalls == 4
\* Number of calls made in a behaviour of the fair specification.
MaxFairCalls == 3
\* Number of calls made in a behaviour of the specification with a fair lock.
MaxSchedCalls == 2

Threads == 1..NThreads

\* m_ when no thread owns the mutex.
Free == 0
\* std::nullopt, as the value of a returned std::optional<T>; items are 1, 2, ...
NoValue == 0
\* What push, stop and clear return.
Void == 0
\* ret after a step in which no call returned.
NoRet == [t |-> 0, op |-> "none", v |-> 0]
\* arg[t] while t is not inside push.
NoArg == 0

VARIABLES
    q_,        \* std::deque<T> q_: the buffered items, front first
    stopped_,  \* bool stopped_
    m_,        \* std::mutex m_: the owning thread, or Free
    cv_,       \* std::condition_variable cv_: the threads blocked in cv_.wait
    pc,        \* pc[t]: where thread t is
    arg,       \* arg[t]: the item thread t is pushing
    ret,       \* the call that returned in the latest step: thread, operation, value
    calls,     \* history: number of calls begun
    pushed,    \* history: number of push calls begun
    appended,  \* history: the items appended to q_, in order
    popped,    \* history: the items returned by wait_pop / try_pop, in order
    cleared,   \* history: the items discarded by clear()
    dropped,   \* history: the items push discarded because stopped_ was set
    hb,        \* history: <<a, b>> when push(a) returned before push(b) was called
    atStop     \* history: q_ when stopped_ was first set

vars == <<q_, stopped_, m_, cv_, pc, arg, ret,
          calls, pushed, appended, popped, cleared, dropped, hb, atStop>>

queue == <<q_, stopped_>>
history == <<calls, pushed, appended, popped, cleared, dropped, hb, atStop>>

Range(s) == {s[i] : i \in 1..Len(s)}

\* The items whose push call has returned.
Completed == {i \in 1..pushed : \A t \in Threads : arg[t] # i}

Init ==
    /\ q_ = <<>>
    /\ stopped_ = FALSE
    /\ m_ = Free
    /\ cv_ = {}
    /\ pc = [t \in Threads |-> "idle"]
    /\ arg = [t \in Threads |-> NoArg]
    /\ ret = NoRet
    /\ calls = 0
    /\ pushed = 0
    /\ appended = <<>>
    /\ popped = <<>>
    /\ cleared = {}
    /\ dropped = {}
    /\ hb = {}
    /\ atStop = <<>>

----------------------------------------------------------------------------
\* A thread begins a call: it has not touched the queue yet.
Call(t, op) ==
    /\ pc[t] = "idle"
    /\ calls < MaxCalls
    /\ calls' = calls + 1
    /\ pc' = [pc EXCEPT ![t] = op]
    /\ ret' = NoRet

\* Faulty variant: the lock is taken whether or not another thread holds it.
AcquireBarging(t, from, to) ==
    /\ pc[t] = from
    /\ m_' = t
    /\ pc' = [pc EXCEPT ![t] = to]
    /\ ret' = NoRet

\* std::lock_guard / std::unique_lock constructor: blocks until m_ is free.
Acquire(t, from, to) ==
    /\ pc[t] = from
    /\ m_ = Free
    /\ m_' = t
    /\ pc' = [pc EXCEPT ![t] = to]
    /\ ret' = NoRet

\* Thread t's call of op returns v.
Returns(t, op, v) == ret' = [t |-> t, op |-> op, v |-> v]

\* Faulty variant: the call returns without releasing m_.
ReturnKeepsLock(t, op, v) ==
    /\ m_' = m_
    /\ pc' = [pc EXCEPT ![t] = "idle"]
    /\ Returns(t, op, v)

\* The call returns v from under the lock; the guard's destructor releases m_.
Return(t, op, v) ==
    /\ m_' = Free
    /\ pc' = [pc EXCEPT ![t] = "idle"]
    /\ Returns(t, op, v)

\* Faulty variant: the item is put at the front (push_front).
PushFront(q, x) == <<x>> \o q

\* q_.push_back(item)
PushBack(q, x) == Append(q, x)

\* T item = std::move(q_.front()); q_.pop_front(); return item;
Front(q) == Head(q)

\* Faulty variant: the front element is returned but left in the deque.
PopFrontKeep(q) == q

PopFront(q) == Tail(q)

\* Faulty variant: cv_.notify_one() wakes nobody.
NotifyOneLost(t) ==
    /\ cv_' = cv_
    /\ pc' = [pc EXCEPT ![t] = "idle"]

\* Faulty variant: notify_one() written where every waiter must go (it wakes all).
NotifyOneWakesAll(t) ==
    /\ cv_' = {}
    /\ pc' = [u \in Threads |-> IF u = t THEN "idle"
                                ELSE IF u \in cv_ THEN "wp_relock"
                                ELSE pc[u]]

\* cv_.notify_one() by thread t, which then returns: one blocked thread, if
\* there is one, leaves the wait and goes on to re-acquire m_.
NotifyOne(t) ==
    IF cv_ = {}
    THEN /\ cv_' = cv_
         /\ pc' = [pc EXCEPT ![t] = "idle"]
    ELSE \E w \in cv_ :
         /\ cv_' = cv_ \ {w}
         /\ pc' = [pc EXCEPT ![t] = "idle", ![w] = "wp_relock"]

\* Faulty variant: notify_all() replaced by notify_one().
NotifyAllWakesOne(t) ==
    IF cv_ = {}
    THEN /\ cv_' = cv_
         /\ pc' = [pc EXCEPT ![t] = "idle"]
    ELSE \E w \in cv_ :
         /\ cv_' = cv_ \ {w}
         /\ pc' = [pc EXCEPT ![t] = "idle", ![w] = "wp_relock"]

\* cv_.notify_all() by thread t, which then returns: every blocked thread
\* leaves the wait and goes on to re-acquire m_.
NotifyAll(t) ==
    /\ cv_' = {}
    /\ pc' = [u \in Threads |-> IF u = t THEN "idle"
                                ELSE IF u \in cv_ THEN "wp_relock"
                                ELSE pc[u]]

----------------------------------------------------------------------------
\* push(const T&) and push(T&&).  The two overloads differ only in how the
\* element is constructed in the deque (copy or move); an item is its identity
\* here, so one set of actions stands for both.

PushCall(t) ==
    /\ pushed < MaxPush
    /\ Call(t, "push_lock")
    /\ pushed' = pushed + 1
    /\ arg' = [arg EXCEPT ![t] = pushed + 1]
    /\ hb' = hb \cup {<<a, pushed + 1>> : a \in Completed}
    /\ UNCHANGED <<queue, m_, cv_, appended, popped, cleared, dropped, atStop>>

PushLock(t) ==
    /\ Acquire(t, "push_lock", "push_cs")
    /\ UNCHANGED <<queue, cv_, arg, history>>

\* Faulty variant: the guarded block without the stopped_ test.
PushLockedNoStopTest(t) ==
    /\ pc[t] = "push_cs"
    /\ m_ = t
    /\ m_' = Free
    /\ q_' = PushBack(q_, arg[t])
    /\ appended' = Append(appended, arg[t])
    /\ pc' = [pc EXCEPT ![t] = "push_notify"]
    /\ ret' = NoRet
    /\ UNCHANGED <<stopped_, cv_, arg, calls, pushed, popped, cleared, dropped, hb, atStop>>

\* The guarded block: return at once when stopped_, else push_back.
PushLocked(t) ==
    /\ pc[t] = "push_cs"
    /\ m_ = t
    /\ m_' = Free
    /\ IF stopped_
       THEN /\ pc' = [pc EXCEPT ![t] = "idle"]
            /\ Returns(t, "push", Void)
            /\ dropped' = dropped \cup {arg[t]}
            /\ arg' = [arg EXCEPT ![t] = NoArg]
            /\ UNCHANGED <<q_, appended>>
       ELSE /\ q_' = PushBack(q_, arg[t])
            /\ appended' = Append(appended, arg[t])
            /\ pc' = [pc EXCEPT ![t] = "push_notify"]
            /\ ret' = NoRet
            /\ UNCHANGED <<dropped, arg>>
    /\ UNCHANGED <<stopped_, cv_, calls, pushed, popped, cleared, hb, atStop>>

\* cv_.notify_one(), after the lock is released: wakes one blocked thread,
\* if there is one.
PushNotify(t) ==
    /\ pc[t] = "push_notify"
    /\ NotifyOne(t)
    /\ Returns(t, "push", Void)
    /\ arg' = [arg EXCEPT ![t] = NoArg]
    /\ UNCHANGED <<queue, m_, history>>

----------------------------------------------------------------------------
\* wait_pop()

\* Faulty variant: a wait without a predicate, which any wake-up ends; so
\* does a call that finds nothing to wait for.
WaitPredicateNone == TRUE

\* Faulty variant: the predicate without stopped_.
WaitPredicateNoStop == q_ # <<>>

\* The positions inside wait_pop.
InWaitPopPc(p) == p \in {"wp_lock", "wp_pred", "wp_blocked", "wp_relock"}

\* The predicate handed to cv_.wait: [&] { return stopped_ || !q_.empty(); }
WaitPredicate == stopped_ \/ q_ # <<>>

WaitPopCall(t) ==
    /\ Call(t, "wp_lock")
    /\ UNCHANGED <<queue, m_, cv_, arg, pushed, appended, popped, cleared, dropped, hb, atStop>>

\* std::unique_lock<std::mutex> lock(m_)
WaitPopLock(t) ==
    /\ Acquire(t, "wp_lock", "wp_pred")
    /\ UNCHANGED <<queue, cv_, arg, history>>

\* cv_.wait with the predicate false: release m_ and block, atomically.
WaitPopSuspend(t) ==
    /\ pc[t] = "wp_pred"
    /\ m_ = t
    /\ ~WaitPredicate
    /\ m_' = Free
    /\ cv_' = cv_ \cup {t}
    /\ pc' = [pc EXCEPT ![t] = "wp_blocked"]
    /\ ret' = NoRet
    /\ UNCHANGED <<queue, arg, history>>

\* A blocked thread wakes up without having been notified.
SpuriousWake(t) ==
    /\ pc[t] = "wp_blocked"
    /\ t \in cv_
    /\ cv_' = cv_ \ {t}
    /\ pc' = [pc EXCEPT ![t] = "wp_relock"]
    /\ ret' = NoRet
    /\ UNCHANGED <<queue, m_, arg, history>>

\* A woken thread re-acquires m_ inside cv_.wait and evaluates the predicate again.
WaitPopRelock(t) ==
    /\ Acquire(t, "wp_relock", "wp_pred")
    /\ UNCHANGED <<queue, cv_, arg, history>>

\* Faulty variant: a stopped queue answers std::nullopt before looking at q_.
WaitPopTakeStopFirst(t) ==
    /\ pc[t] = "wp_pred"
    /\ m_ = t
    /\ WaitPredicate
    /\ IF stopped_ \/ q_ = <<>>
       THEN /\ Return(t, "wait_pop", NoValue)
            /\ UNCHANGED <<q_, popped>>
       ELSE /\ Return(t, "wait_pop", Front(q_))
            /\ q_' = PopFront(q_)
            /\ popped' = Append(popped, Front(q_))
    /\ UNCHANGED <<stopped_, cv_, arg, calls, pushed, appended, cleared, dropped, hb, atStop>>

\* cv_.wait with the predicate true, and the rest of the function under the lock.
WaitPopTake(t) ==
    /\ pc[t] = "wp_pred"
    /\ m_ = t
    /\ WaitPredicate
    /\ IF q_ = <<>>
       THEN /\ Return(t, "wait_pop", NoValue)
            /\ UNCHANGED <<q_, popped>>
       ELSE /\ Return(t, "wait_pop", Front(q_))
            /\ q_' = PopFront(q_)
            /\ popped' = Append(popped, Front(q_))
    /\ UNCHANGED <<stopped_, cv_, arg, calls, pushed, appended, cleared, dropped, hb, atStop>>

----------------------------------------------------------------------------
\* try_pop()

TryPopCall(t) ==
    /\ Call(t, "tp_lock")
    /\ UNCHANGED <<queue, m_, cv_, arg, pushed, appended, popped, cleared, dropped, hb, atStop>>

TryPopLock(t) ==
    /\ Acquire(t, "tp_lock", "tp_cs")
    /\ UNCHANGED <<queue, cv_, arg, history>>

\* Faulty variant: try_pop answers std::nullopt on a stopped queue.
TryPopLockedStopFirst(t) ==
    /\ pc[t] = "tp_cs"
    /\ m_ = t
    /\ IF stopped_ \/ q_ = <<>>
       THEN /\ Return(t, "try_pop", NoValue)
            /\ UNCHANGED <<q_, popped>>
       ELSE /\ Return(t, "try_pop", Front(q_))
            /\ q_' = PopFront(q_)
            /\ popped' = Append(popped, Front(q_))
    /\ UNCHANGED <<stopped_, cv_, arg, calls, pushed, appended, cleared, dropped, hb, atStop>>

TryPopLocked(t) ==
    /\ pc[t] = "tp_cs"
    /\ m_ = t
    /\ IF q_ = <<>>
       THEN /\ Return(t, "try_pop", NoValue)
            /\ UNCHANGED <<q_, popped>>
       ELSE /\ Return(t, "try_pop", Front(q_))
            /\ q_' = PopFront(q_)
            /\ popped' = Append(popped, Front(q_))
    /\ UNCHANGED <<stopped_, cv_, arg, calls, pushed, appended, cleared, dropped, hb, atStop>>

----------------------------------------------------------------------------
\* stop()

StopCall(t) ==
    /\ Call(t, "stop_lock")
    /\ UNCHANGED <<queue, m_, cv_, arg, pushed, appended, popped, cleared, dropped, hb, atStop>>

StopLock(t) ==
    /\ Acquire(t, "stop_lock", "stop_cs")
    /\ UNCHANGED <<queue, cv_, arg, history>>

\* Faulty variant: the flag is flipped instead of set.
StopLockedToggle(t) ==
    /\ pc[t] = "stop_cs"
    /\ m_ = t
    /\ m_' = Free
    /\ stopped_' = ~stopped_
    /\ atStop' = IF stopped_ THEN atStop ELSE q_
    /\ pc' = [pc EXCEPT ![t] = "stop_notify"]
    /\ ret' = NoRet
    /\ UNCHANGED <<q_, cv_, arg, calls, pushed, appended, popped, cleared, dropped, hb>>

\* The guarded block: stopped_ = true.
StopLocked(t) ==
    /\ pc[t] = "stop_cs"
    /\ m_ = t
    /\ m_' = Free
    /\ stopped_' = TRUE
    /\ atStop' = IF stopped_ THEN atStop ELSE q_
    /\ pc' = [pc EXCEPT ![t] = "stop_notify"]
    /\ ret' = NoRet
    /\ UNCHANGED <<q_, cv_, arg, calls, pushed, appended, popped, cleared, dropped, hb>>

\* cv_.notify_all(), after the lock is released: wakes every blocked thread.
StopNotify(t) ==
    /\ pc[t] = "stop_notify"
    /\ NotifyAll(t)
    /\ Returns(t, "stop", Void)
    /\ UNCHANGED <<queue, m_, arg, history>>

----------------------------------------------------------------------------
\* clear()

ClearCall(t) ==
    /\ Call(t, "clear_lock")
    /\ UNCHANGED <<queue, m_, cv_, arg, pushed, appended, popped, cleared, dropped, hb, atStop>>

ClearLock(t) ==
    /\ Acquire(t, "clear_lock", "clear_cs")
    /\ UNCHANGED <<queue, cv_, arg, history>>

\* Faulty variant: clear() wakes every thread blocked on cv_.
ClearLockedWakes(t) ==
    /\ pc[t] = "clear_cs"
    /\ m_ = t
    /\ m_' = Free
    /\ pc' = [u \in Threads |-> IF u = t THEN "idle"
                                ELSE IF u \in cv_ THEN "wp_relock"
                                ELSE pc[u]]
    /\ cv_' = {}
    /\ Returns(t, "clear", Void)
    /\ q_' = <<>>
    /\ cleared' = cleared \cup Range(q_)
    /\ UNCHANGED <<stopped_, arg, calls, pushed, appended, popped, dropped, hb, atStop>>

\* Faulty variant: clear() discards the front element only.
ClearLockedPopsOne(t) ==
    /\ pc[t] = "clear_cs"
    /\ m_ = t
    /\ Return(t, "clear", Void)
    /\ q_' = IF q_ = <<>> THEN q_ ELSE PopFront(q_)
    /\ cleared' = IF q_ = <<>> THEN cleared ELSE cleared \cup {Front(q_)}
    /\ UNCHANGED <<stopped_, cv_, arg, calls, pushed, appended, popped, dropped, hb, atStop>>

\* Faulty variant: clear() also resets the stop request.
ClearLockedResets(t) ==
    /\ pc[t] = "clear_cs"
    /\ m_ = t
    /\ Return(t, "clear", Void)
    /\ q_' = <<>>
    /\ stopped_' = FALSE
    /\ cleared' = cleared \cup Range(q_)
    /\ UNCHANGED <<cv_, arg, calls, pushed, appended, popped, dropped, hb, atStop>>

ClearLocked(t) ==
    /\ pc[t] = "clear_cs"
    /\ m_ = t
    /\ Return(t, "clear", Void)
    /\ q_' = <<>>
    /\ cleared' = cleared \cup Range(q_)
    /\ UNCHANGED <<stopped_, cv_, arg, calls, pushed, appended, popped, dropped, hb, atStop>>

----------------------------------------------------------------------------
\* size() and stopped()

SizeCall(t) ==
    /\ Call(t, "size_lock")
    /\ UNCHANGED <<queue, m_, cv_, arg, pushed, appended, popped, cleared, dropped, hb, atStop>>

SizeLock(t) ==
    /\ Acquire(t, "size_lock", "size_cs")
    /\ UNCHANGED <<queue, cv_, arg, history>>

\* Faulty variant: size() counts every element ever appended.
SizeLockedTotal(t) ==
    /\ pc[t] = "size_cs"
    /\ m_ = t
    /\ Return(t, "size", Len(appended))
    /\ UNCHANGED <<queue, cv_, arg, history>>

SizeLocked(t) ==
    /\ pc[t] = "size_cs"
    /\ m_ = t
    /\ Return(t, "size", Len(q_))
    /\ UNCHANGED <<queue, cv_, arg, history>>

StoppedCall(t) ==
    /\ Call(t, "stopped_lock")
    /\ UNCHANGED <<queue, m_, cv_, arg, pushed, appended, popped, cleared, dropped, hb, atStop>>

StoppedLock(t) ==
    /\ Acquire(t, "stopped_lock", "stopped_cs")
    /\ UNCHANGED <<queue, cv_, arg, history>>

StoppedLocked(t) ==
    /\ pc[t] = "stopped_cs"
    /\ m_ = t
    /\ Return(t, "stopped", IF stopped_ THEN 1 ELSE 0)
    /\ UNCHANGED <<queue, cv_, arg, history>>

----------------------------------------------------------------------------
Next ==
    \E t \in Threads :
        \/ PushCall(t)
        \/ PushLock(t)
        \/ PushLocked(t)
        \/ PushNotify(t)
        \/ WaitPopCall(t)
        \/ WaitPopLock(t)
        \/ WaitPopSuspend(t)
        \/ SpuriousWake(t)
        \/ WaitPopRelock(t)
        \/ WaitPopTake(t)
        \/ TryPopCall(t)
        \/ TryPopLock(t)
        \/ TryPopLocked(t)
        \/ StopCall(t)
        \/ StopLock(t)
        \/ StopLocked(t)
        \/ StopNotify(t)
        \/ ClearCall(t)
        \/ ClearLock(t)
        \/ ClearLocked(t)
        \/ SizeCall(t)
        \/ SizeLock(t)
        \/ SizeLocked(t)
        \/ StoppedCall(t)
        \/ StoppedLock(t)
        \/ StoppedLocked(t)

Spec == Init /\ [][Next]_vars

\* The steps of thread t that the scheduler owes it: every step of a call in
\* progress.  Beginning a call is the caller's choice and a spurious wake-up
\* is never owed.
Progress(t) ==
    \/ PushLock(t) \/ PushLocked(t) \/ PushNotify(t)
    \/ WaitPopLock(t) \/ WaitPopSuspend(t) \/ WaitPopRelock(t) \/ WaitPopTake(t)
    \/ TryPopLock(t) \/ TryPopLocked(t)
    \/ StopLock(t) \/ StopLocked(t) \/ StopNotify(t)
    \/ ClearLock(t) \/ ClearLocked(t)
    \/ SizeLock(t) \/ SizeLocked(t)
    \/ StoppedLock(t) \/ StoppedLocked(t)

\* Thread t begins a call of any operation.
BeginCall(t) ==
    \/ PushCall(t) \/ WaitPopCall(t) \/ TryPopCall(t) \/ StopCall(t)
    \/ ClearCall(t) \/ SizeCall(t) \/ StoppedCall(t)

\* Next, with MaxFairCalls calls in a behaviour.
FairNext ==
    \E t \in Threads :
        \/ calls < MaxFairCalls /\ BeginCall(t)
        \/ Progress(t)
        \/ SpuriousWake(t)

\* Fair scheduling: a thread that can take a step of its call, and stays able
\* to, takes it.
FairSpec == Init /\ [][FairNext]_vars /\ \A t \in Threads : WF_vars(Progress(t))

\* Fair scheduling with a fair lock: a thread waiting for m_ can step only
\* while m_ is free, and a lock that is free again and again is not always
\* lost to the other threads.
SchedNext ==
    \E t \in Threads :
        \/ calls < MaxSchedCalls /\ BeginCall(t)
        \/ Progress(t)
        \/ SpuriousWake(t)

SchedSpec == Init /\ [][SchedNext]_vars /\ \A t \in Threads : SF_vars(Progress(t))

\* ~ThreadSafeQueue() { stop(); }, then the members are destroyed.  One thread
\* destroys the queue while the others are idle or suspended in wait_pop, and
\* no call begins once the destructor has.

\* m_ once the members have been destroyed.
Destroyed == NThreads + 1
Alive == m_ # Destroyed

DtorPcs == {"dtor_lock", "dtor_cs", "dtor_notify", "dtor_members"}
NoDtor == Alive /\ \A t \in Threads : pc[t] \notin DtorPcs

\* What a thread that used a destroyed member may have become.
UbPcs == {"hung", "crashed"}

DtorCall(t) ==
    /\ NoDtor
    /\ \A u \in Threads \ {t} : pc[u] \in {"idle", "wp_blocked"}
    /\ Call(t, "dtor_lock")
    /\ UNCHANGED <<queue, m_, cv_, arg, pushed, appended, popped, cleared, dropped, hb, atStop>>

\* stop(), inlined: the lock_guard ...
DtorLock(t) ==
    /\ Acquire(t, "dtor_lock", "dtor_cs")
    /\ UNCHANGED <<queue, cv_, arg, history>>

\* ... stopped_ = true ...
DtorLocked(t) ==
    /\ pc[t] = "dtor_cs"
    /\ m_ = t
    /\ m_' = Free
    /\ stopped_' = TRUE
    /\ atStop' = IF stopped_ THEN atStop ELSE q_
    /\ pc' = [pc EXCEPT ![t] = "dtor_notify"]
    /\ ret' = NoRet
    /\ UNCHANGED <<q_, cv_, arg, calls, pushed, appended, popped, cleared, dropped, hb>>

\* ... and cv_.notify_all(); stop() returns into the destructor.
DtorNotify(t) ==
    /\ pc[t] = "dtor_notify"
    /\ cv_' = {}
    /\ pc' = [u \in Threads |-> IF u = t THEN "dtor_members"
                                ELSE IF u \in cv_ THEN "wp_relock"
                                ELSE pc[u]]
    /\ ret' = NoRet
    /\ UNCHANGED <<queue, m_, arg, history>>

\* The destructor's body is over: q_, cv_ and m_ are destroyed, whatever the
\* other threads are doing.  The elements left in q_ go with it.
DtorMembers(t) ==
    /\ pc[t] = "dtor_members"
    /\ m_' = Destroyed
    /\ cv_' = {}
    /\ q_' = <<>>
    /\ pc' = [pc EXCEPT ![t] = "idle"]
    /\ Returns(t, "dtor", Void)
    /\ UNCHANGED <<stopped_, arg, history>>

\* A thread still inside wait_pop goes on after the members are gone: it
\* locks a destroyed mutex and reads a destroyed deque.  That is undefined
\* behaviour; it may return anything, never return, or end the program.
UseAfterDestroy(t) ==
    /\ ~Alive
    /\ InWaitPopPc(pc[t])
    /\ \/ \E v \in 0..MaxPush :
             /\ pc' = [pc EXCEPT ![t] = "idle"]
             /\ Returns(t, "wait_pop", v)
       \/ \E o \in UbPcs :
             /\ pc' = [pc EXCEPT ![t] = o]
             /\ ret' = NoRet
    /\ UNCHANGED <<queue, m_, cv_, arg, history>>

\* The steps of a consumer inside wait_pop.
WaitPopStep(t) ==
    \/ WaitPopSuspend(t) \/ SpuriousWake(t) \/ WaitPopRelock(t) \/ WaitPopTake(t)

DtorNext ==
    \/ NoDtor /\ Next
    \/ \E t \in Threads :
        \/ DtorCall(t)
        \/ DtorLock(t)
        \/ DtorLocked(t)
        \/ DtorNotify(t)
        \/ DtorMembers(t)
        \/ ~NoDtor /\ Alive /\ WaitPopStep(t)
        \/ UseAfterDestroy(t)

DtorSpec == Init /\ [][DtorNext]_vars

----------------------------------------------------------------------------
\* A stream: one thread produces and then calls stop() once; every other
\* thread consumes, calling wait_pop in a loop until it gets no value.

Producer == 1
Consumers == Threads \ {Producer}

\* The producer pushes while it has items, keeping one call for stop().
ProducerPush ==
    /\ calls < MaxFairCalls - 1
    /\ PushCall(Producer)

\* The producer calls stop(), once.
ProducerStop ==
    /\ ~stopped_
    /\ StopCall(Producer)

\* while (auto item = queue.wait_pop()) { ... }: the next turn of the loop.
ConsumerCall(t) ==
    /\ t \in Consumers
    /\ pc[t] = "idle"
    /\ pc' = [pc EXCEPT ![t] = "wp_lock"]
    /\ ret' = NoRet
    /\ UNCHANGED <<queue, m_, cv_, arg, history>>

\* The loop's test of what wait_pop has just returned: no value ends the loop.
ConsumerLoop(t) ==
    /\ t \in Consumers
    /\ ret.t = t
    /\ ret.op = "wait_pop"
    /\ pc' = [pc EXCEPT ![t] = IF ret.v = NoValue THEN "done" ELSE "idle"]
    /\ ret' = NoRet
    /\ UNCHANGED <<queue, m_, cv_, arg, history>>

\* The steps of the calls a stream makes: push, stop and wait_pop.
StreamStep(t) ==
    \/ PushLock(t) \/ PushLocked(t) \/ PushNotify(t)
    \/ StopLock(t) \/ StopLocked(t) \/ StopNotify(t)
    \/ WaitPopLock(t) \/ WaitPopSuspend(t) \/ WaitPopRelock(t) \/ WaitPopTake(t)

\* A consumer tests the result of wait_pop before anything else happens.
LoopPending == ret.op = "wait_pop"

StreamNext ==
    \/ \E t \in Consumers : ConsumerLoop(t)
    \/ ~LoopPending /\ ProducerPush
    \/ ~LoopPending /\ ProducerStop
    \/ \E t \in Threads :
        \/ ~LoopPending /\ ConsumerCall(t)
        \/ ~LoopPending /\ StreamStep(t)
        \/ ~LoopPending /\ SpuriousWake(t)

\* Fair scheduling of the stream: every thread goes on with the call it is
\* in, every consumer goes on with its loop, and the producer does call stop().
\* A thread waiting for m_ can step only while m_ is free, so its fairness is
\* strong: a lock that is free again and again is not always lost to others.
StreamSpec ==
    /\ Init
    /\ [][StreamNext]_vars
    /\ \A t \in Threads : SF_vars(StreamStep(t))
    /\ \A t \in Consumers : WF_vars(ConsumerCall(t) \/ ConsumerLoop(t))
    /\ WF_vars(ProducerStop)

\* The same threads when nothing obliges the producer to call stop(): the
\* consumers go on calling wait_pop for as long as they are given items.
FeedSpec ==
    /\ Init
    /\ [][StreamNext]_vars
    /\ \A t \in Threads : WF_vars(StreamStep(t))
    /\ \A t \in Consumers : WF_vars(ConsumerCall(t) \/ ConsumerLoop(t))

----------------------------------------------------------------------------
\* Vocabulary of the properties.

\* How often item i occurs in sequence s.
Count(s, i) == Cardinality({k \in 1..Len(s) : s[k] = i})

\* The position of item i in sequence s (0 when it is not in s).
Pos(s, i) == IF \E k \in 1..Len(s) : s[k] = i
             THEN CHOOSE k \in 1..Len(s) : s[k] = i
             ELSE 0

\* Thread t takes a step from position p.
StepFrom(t, p) == pc[t] = p /\ pc'[t] # p

\* Thread t's call of op returned v in the latest step.
Returned(t, op, v) == ret = [t |-> t, op |-> op, v |-> v]

IsPop(op) == op \in {"wait_pop", "try_pop"}

\* Thread t is inside wait_pop.
InWaitPop(t) == pc[t] \in {"wp_lock", "wp_pred", "wp_blocked", "wp_relock"}

\* The state machine of the queue.
QState == IF ~stopped_ THEN "ACTIVE"
          ELSE IF q_ # <<>> THEN "DRAINING"
          ELSE "CLOSED"

\* The items that were buffered when the queue was stopped and have been
\* returned by a pop since, in the order of their return.
Drained == SelectSeq(popped, LAMBDA i : i \in Range(atStop))

----------------------------------------------------------------------------
\* C1 (exactly-once delivery).  Every item a push appended has been returned
\* by at most one pop, and an item that no clear() discarded is either still
\* in the buffer or has been returned by exactly one pop; a pop returns
\* nothing but appended items, and the item it returns is the one it removed.
C1_ExactlyOnce ==
    /\ \A i \in Range(appended) :
          /\ Count(appended, i) = 1
          /\ Count(popped, i) <= 1
          /\ i \notin cleared => Count(popped, i) + Count(q_, i) = 1
    /\ Range(popped) \cup Range(q_) \subseteq Range(appended)
    /\ IsPop(ret.op) /\ ret.v # NoValue =>
          /\ popped # <<>>
          /\ popped[Len(popped)] = ret.v
          /\ ret.v \notin Range(q_)

\* Two items were pushed and each was returned once, the later one by try_pop.
C1_Witness ==
    /\ Len(popped) = 2
    /\ ret.op = "try_pop"
    /\ ret.v = popped[2]
    /\ q_ = <<>>

----------------------------------------------------------------------------
\* C2 (no value means stopped and empty).  A wait_pop call that returns
\* std::nullopt decided so, holding the lock, in a state where stopped_ was
\* true and q_ was empty, and it left both as they were.
C2_NoValueOnlyWhenClosed ==
    [][\A t \in Threads :
        (StepFrom(t, "wp_pred") /\ pc'[t] = "idle" /\ ret'.v = NoValue) =>
            /\ m_ = t
            /\ stopped_ /\ q_ = <<>>
            /\ stopped_' /\ q_' = <<>>
            /\ ret' = [t |-> t, op |-> "wait_pop", v |-> NoValue]]_vars

\* A wait_pop returned std::nullopt after the buffered items had been taken
\* by other pops.
C2_Witness ==
    /\ ret.op = "wait_pop"
    /\ ret.v = NoValue
    /\ popped # <<>>

----------------------------------------------------------------------------
\* C3 (FIFO).  The items no clear() discarded leave the buffer in the order
\* in which they were appended: in append order they are the returned items
\* followed by the buffered ones.  When push(a) returned before push(b) was
\* called, a was appended before b, and if both were returned a was
\* returned first.
C3_Fifo ==
    /\ SelectSeq(appended, LAMBDA i : i \notin cleared) = popped \o q_
    /\ \A p \in hb :
          /\ p[2] \in Range(appended) =>
                /\ p[1] \in Range(appended) \cup dropped
                /\ p[1] \in Range(appended) =>
                      Pos(appended, p[1]) < Pos(appended, p[2])
          /\ (p[1] \in Range(popped) /\ p[2] \in Range(popped)) =>
                Pos(popped, p[1]) < Pos(popped, p[2])

\* push(1) returned before push(2) was called, and two pops returned 1, 2.
C3_Witness ==
    /\ <<1, 2>> \in hb
    /\ popped = <<1, 2>>

----------------------------------------------------------------------------
\* C4 (shutdown drains before closing).  stop() leaves q_ as it is.  On a
\* stopped queue wait_pop never suspends: it returns the front item while
\* there is one and std::nullopt once there is none.  Unless a clear()
\* discarded some of them, the items buffered at the stop are, in order, the
\* ones the pops since have returned followed by the ones still buffered.
C4_DrainBeforeClose ==
    /\ [](stopped_ /\ Range(atStop) \cap cleared = {} => Drained \o q_ = atStop)
    /\ [][\A t \in Threads :
            /\ StepFrom(t, "stop_cs") => q_' = q_ /\ stopped_'
            /\ (stopped_ /\ StepFrom(t, "wp_pred")) =>
                  /\ pc'[t] = "idle"
                  /\ ret' = [t |-> t, op |-> "wait_pop",
                              v |-> IF q_ = <<>> THEN NoValue ELSE Head(q_)]
                  /\ q_' = IF q_ = <<>> THEN q_ ELSE Tail(q_)]_vars

\* One item was buffered at the stop; a wait_pop returned it and the next
\* wait_pop returned std::nullopt.
C4_Witness ==
    /\ stopped_
    /\ Len(atStop) = 1
    /\ popped = atStop
    /\ Returned(ret.t, "wait_pop", NoValue)

----------------------------------------------------------------------------
\* C5 (push after stop is a no-op).  A push that holds the lock while
\* stopped_ is true returns without changing q_, without waking a blocked
\* thread and without notifying; its item is never buffered or returned.
\* Once stopped_ is true q_ never grows.
C5_PushAfterStopNoOp ==
    /\ [](dropped \cap (Range(appended) \cup Range(q_) \cup Range(popped)) = {})
    /\ [][\A t \in Threads :
            (stopped_ /\ StepFrom(t, "push_cs")) =>
                /\ q_' = q_
                /\ cv_' = cv_
                /\ pc' = [pc EXCEPT ![t] = "idle"]
                /\ arg[t] \in dropped']_vars
    /\ [][stopped_ => Len(q_') <= Len(q_)]_vars

\* A push was discarded while a consumer was still blocked in wait_pop.
C5_Witness ==
    /\ dropped # {}
    /\ cv_ # {}
    /\ Returned(ret.t, "push", Void)

----------------------------------------------------------------------------
\* C6 (stop unblocks all waiters).  Under fair scheduling, a thread that is
\* inside wait_pop when stopped_ is true, blocked or not, returns from that
\* call.
C6_StopUnblocksAll ==
    \A t \in Threads :
        (InWaitPop(t) /\ stopped_) ~> (ret.t = t /\ ret.op = "wait_pop")

\* stop() has set the flag while two consumers are blocked in wait_pop.
C6_Witness ==
    /\ stopped_
    /\ Cardinality(cv_) >= 2
    /\ \E s \in Threads : pc[s] = "stop_notify"

----------------------------------------------------------------------------
\* C7 (a single push releases exactly one consumer).  push's notify wakes at
\* most one blocked consumer and moves no other thread.  On a queue that is
\* not stopped a wait_pop returns only by removing the front item, which it
\* returns; while the queue is empty and not stopped no consumer leaves
\* wait_pop, and one that evaluates the predicate then suspends again.
C7_OnePushOneConsumer ==
    [][\A t \in Threads :
        /\ StepFrom(t, "push_notify") =>
              /\ Cardinality(cv_ \ cv_') <= 1
              /\ cv_' \subseteq cv_
              /\ {u \in Threads : pc'[u] # pc[u]} \ {t} = cv_ \ cv_'
        /\ (~stopped_ /\ InWaitPop(t) /\ pc'[t] = "idle") =>
              /\ q_ # <<>>
              /\ ret' = [t |-> t, op |-> "wait_pop", v |-> Head(q_)]
              /\ q_' = Tail(q_)
        /\ (~stopped_ /\ q_ = <<>> /\ InWaitPop(t)) => InWaitPop(t)'
        /\ (~stopped_ /\ q_ = <<>> /\ StepFrom(t, "wp_pred")) =>
              /\ pc'[t] = "wp_blocked"
              /\ t \in cv_']_vars

\* Two consumers and one push: one consumer has returned the item, the other
\* is blocked in wait_pop, and the push has returned.
C7_Witness ==
    /\ calls = 3
    /\ pushed = 1
    /\ ~stopped_
    /\ ret.op = "wait_pop"
    /\ ret.v = 1
    /\ \E u \in Threads : u # ret.t /\ pc[u] = "wp_blocked"
    /\ \A u \in Threads : pc[u] \in {"idle", "wp_blocked"}

----------------------------------------------------------------------------
\* C8 (stopped is monotonic).  stopped_ changes only in stop()'s guarded
\* block, and only to true; once true it stays true in every step, so the
\* queue never goes back to ACTIVE.
C8_StoppedMonotonic ==
    /\ [][stopped_ => stopped_']_vars
    /\ [][stopped_' # stopped_ => \E t \in Threads : StepFrom(t, "stop_cs")]_vars
    /\ [][QState # "ACTIVE" => QState' # "ACTIVE"]_vars

\* clear() returned on a stopped queue.
C8_Witness ==
    /\ stopped_
    /\ Returned(ret.t, "clear", Void)
    /\ cleared # {}

----------------------------------------------------------------------------
\* C9 (CLOSED is absorbing and never blocks).  Once the queue is stopped and
\* empty it stays so in every step; no thread suspends in wait_pop on a
\* stopped queue, and a wait_pop that evaluates its predicate on a closed
\* queue returns std::nullopt in that step.
C9_ClosedAbsorbing ==
    /\ [][QState = "CLOSED" => QState' = "CLOSED"]_vars
    /\ [][\A t \in Threads :
            /\ stopped_ => ~(pc[t] # "wp_blocked" /\ pc'[t] = "wp_blocked")
            /\ (QState = "CLOSED" /\ StepFrom(t, "wp_pred")) =>
                  /\ pc'[t] = "idle"
                  /\ ret' = [t |-> t, op |-> "wait_pop", v |-> NoValue]]_vars

\* stop() on a queue nothing was pushed to, and a wait_pop that returned
\* std::nullopt; no other call was made.
C9_Witness ==
    /\ QState = "CLOSED"
    /\ pushed = 0
    /\ calls = 2
    /\ Returned(ret.t, "wait_pop", NoValue)
    /\ \A u \in Threads : pc[u] = "idle"

----------------------------------------------------------------------------
\* C10 (stop is idempotent).  Every stop()'s guarded block leaves stopped_
\* true and q_ as it was, and on a queue that is already stopped it changes
\* neither; stop()'s notify changes neither; a thread inside stop() never
\* waits on the condition variable.
C10_StopIdempotent ==
    /\ [](\A t \in Threads :
            pc[t] \in {"stop_lock", "stop_cs", "stop_notify"} => t \notin cv_)
    /\ [][\A t \in Threads :
            /\ StepFrom(t, "stop_cs") =>
                  /\ stopped_'
                  /\ q_' = q_
                  /\ stopped_ => UNCHANGED <<q_, stopped_, cv_, atStop>>
            /\ StepFrom(t, "stop_notify") =>
                  /\ UNCHANGED <<q_, stopped_>>
                  /\ pc'[t] = "idle"]_vars

\* Two threads are inside stop() at once, one past the guarded block, on a
\* queue that holds an item.
C10_Witness ==
    /\ q_ # <<>>
    /\ stopped_
    /\ \E t, u \in Threads : pc[t] = "stop_notify" /\ pc[u] = "stop_cs"

----------------------------------------------------------------------------
\* C11 (clear empties the buffer and leaves stopped alone).  clear()'s step
\* under the lock leaves q_ empty and stopped_ as it was, hands the discarded
\* items to no pop and wakes no thread.  A push that holds the lock on a
\* queue that is not stopped appends its item, whatever was cleared before.
C11_ClearKeepsStopped ==
    [][\A t \in Threads :
        /\ StepFrom(t, "clear_cs") =>
              /\ m_ = t
              /\ q_' = <<>>
              /\ stopped_' = stopped_
              /\ cleared' = cleared \cup Range(q_)
              /\ popped' = popped
              /\ cv_' = cv_
              /\ ret' = [t |-> t, op |-> "clear", v |-> Void]
        /\ (~stopped_ /\ StepFrom(t, "push_cs")) =>
              /\ q_' = Append(q_, arg[t])
              /\ ~stopped_']_vars

\* Item 1 was cleared from a queue that is not stopped; item 2, pushed
\* after, was accepted and has been returned by a pop.
C11_Witness ==
    /\ cleared = {1}
    /\ popped = <<2>>
    /\ ~stopped_
    /\ IsPop(ret.op) /\ ret.v = 2

----------------------------------------------------------------------------
\* C12 (try_pop never suspends, and looks at the buffer only).  try_pop's
\* step under the lock returns: std::nullopt exactly when q_ is empty,
\* otherwise the front item, which it removes; stopped_ has no part in it.
\* A thread inside try_pop never waits on the condition variable.
C12_TryPopBufferOnly ==
    /\ [](\A t \in Threads : pc[t] \in {"tp_lock", "tp_cs"} => t \notin cv_)
    /\ [][\A t \in Threads :
            StepFrom(t, "tp_cs") =>
                /\ m_ = t
                /\ pc'[t] = "idle"
                /\ ret'.t = t /\ ret'.op = "try_pop"
                /\ (ret'.v = NoValue) <=> (q_ = <<>>)
                /\ q_ # <<>> => (ret'.v = Head(q_) /\ q_' = Tail(q_))
                /\ q_ = <<>> => q_' = q_
                /\ stopped_' = stopped_]_vars

\* try_pop returned the front item of a stopped queue.
C12_Witness ==
    /\ stopped_
    /\ ret.op = "try_pop"
    /\ ret.v # NoValue
    /\ atStop # <<>>
    /\ popped = <<ret.v>>

----------------------------------------------------------------------------
\* C13 (safe destruction with blocked consumers).  When the queue is
\* destroyed while consumers are suspended in wait_pop, every one of them
\* completes its wait_pop: none is left hanging and none brings the program
\* down.
C13_SafeDestruction ==
    \A t \in Threads : pc[t] \notin UbPcs

----------------------------------------------------------------------------
----------------------------------------------------------------------------
\* The positions at which a thread holds m_, and those at which it waits for it.
CsPcs == {"push_cs", "wp_pred", "tp_cs", "stop_cs", "clear_cs", "size_cs", "stopped_cs"}
LockPcs == {"push_lock", "wp_lock", "wp_relock", "tp_lock", "stop_lock", "clear_lock",
            "size_lock", "stopped_lock"}

\* C15 (mutual exclusion, I1).  A thread holds m_ exactly while it is at one
\* of the positions between taking and releasing it, so at most one thread is
\* there at a time; q_ and stopped_ change, and a value is returned from them,
\* only in a step of the thread holding m_; a thread suspended in wait_pop
\* holds nothing, and takes free m_ again before it evaluates the predicate.
C15_MutualExclusion ==
    /\ [](\A t \in Threads : (m_ = t) <=> (pc[t] \in CsPcs))
    /\ [](\A t, u \in Threads : (pc[t] \in CsPcs /\ pc[u] \in CsPcs) => t = u)
    /\ [][(queue' # queue \/ ret'.op \in {"wait_pop", "try_pop", "size", "stopped"}) =>
            \E t \in Threads : m_ = t /\ pc[t] \in CsPcs /\ pc'[t] # pc[t] /\ m_' = Free]_vars
    /\ [][\A t \in Threads : StepFrom(t, "wp_blocked") =>
            (m_' = m_ /\ m_ # t /\ pc'[t] = "wp_relock" /\ queue' = queue)]_vars
    /\ [][\A t \in Threads : StepFrom(t, "wp_relock") =>
            (m_ = Free /\ m_' = t /\ pc'[t] = "wp_pred" /\ queue' = queue)]_vars

C15_Witness ==
    \E t, u, w \in Threads :
        /\ pc[t] = "wp_pred" /\ m_ = t /\ q_ # <<>>
        /\ pc[u] = "wp_blocked"
        /\ pc[w] = "tp_lock"

----------------------------------------------------------------------------
\* C16 (wait predicate, I3).  A thread inside wait_pop that evaluates the
\* predicate holds m_; it goes on to return exactly when stopped_ is true or
\* q_ is not empty, and otherwise blocks on cv_ again with nothing changed.
\* No step of a clear() call takes a thread out of cv_, moves another thread
\* or returns from a wait_pop.
C16_WaitPredicate ==
    /\ [][\A t \in Threads : StepFrom(t, "wp_pred") =>
            /\ m_ = t
            /\ IF stopped_ \/ q_ # <<>>
               THEN pc'[t] = "idle" /\ ret'.t = t /\ ret'.op = "wait_pop"
               ELSE /\ pc'[t] = "wp_blocked" /\ cv_' = cv_ \cup {t}
                    /\ ret' = NoRet /\ queue' = queue /\ popped' = popped]_vars
    /\ [][ret'.op = "wait_pop" =>
            \E t \in Threads : StepFrom(t, "wp_pred") /\ (stopped_ \/ q_ # <<>>)]_vars
    /\ [][\A t \in Threads :
            (pc'[t] # pc[t] /\ (pc[t] \in {"clear_lock", "clear_cs"} \/ pc'[t] = "clear_lock")) =>
                /\ cv_' = cv_
                /\ \A u \in Threads \ {t} : pc'[u] = pc[u]
                /\ ret'.op # "wait_pop"]_vars

\* clear() has just emptied the queue under a consumer that a push had woken.
C16_Witness ==
    /\ ret.op = "clear" /\ cleared # {} /\ q_ = <<>> /\ ~stopped_ /\ popped = <<>>
    /\ \E t \in Threads : pc[t] = "wp_relock"
    /\ \A u \in Threads : pc[u] \in {"idle", "wp_relock"}

----------------------------------------------------------------------------
\* No push and no stop is between its first and its last step.
Quiescent ==
    \A t \in Threads :
        pc[t] \notin {"push_lock", "push_cs", "push_notify", "stop_lock", "stop_cs", "stop_notify"}

\* A thread has been woken and has not evaluated the predicate yet.
WakePending == \E t \in Threads : pc[t] \in {"wp_relock", "wp_pred"}

\* C17 (no lost wake-up on push).  With consumers that keep calling wait_pop,
\* under fair scheduling, every item appended is eventually returned by a pop,
\* although push notifies after it has released m_; and in no quiescent state
\* is a thread blocked on cv_ while stopped_ is true, or while q_ is not empty
\* and no woken thread is on its way to the predicate.
C17_NoLostWakeup ==
    /\ \A i \in 1..MaxPush : (i \in Range(appended)) ~> (i \in Range(popped))
    /\ [](Quiescent /\ cv_ # {} => ~stopped_ /\ (q_ # <<>> => WakePending))

\* An item is in the queue, its push has not notified yet, and a consumer is
\* still blocked.
C17_Witness ==
    /\ q_ # <<>> /\ ~stopped_
    /\ pc[Producer] = "push_notify"
    /\ \A c \in Consumers : pc[c] = "wp_blocked"

----------------------------------------------------------------------------
\* The positions inside push, try_pop, stop, clear, size and stopped.
NonBlockingPcs ==
    {"push_lock", "push_cs", "push_notify", "tp_lock", "tp_cs",
     "stop_lock", "stop_cs", "stop_notify", "clear_lock", "clear_cs",
     "size_lock", "size_cs", "stopped_lock", "stopped_cs"}

----------------------------------------------------------------------------
\* The positions inside size() and stopped().
ObserverPcs == {"size_lock", "size_cs", "stopped_lock", "stopped_cs"}

\* C19 (observers are exact snapshots and pure).  q_ always holds as many
\* elements as were appended, less those popped and those cleared; size()
\* returns that number and stopped() returns stopped_, each read holding m_;
\* no step of either call changes q_, stopped_, cv_ or what has been appended,
\* popped or cleared.
C19_Observers ==
    /\ [](Len(q_) = Len(appended) - Len(popped) - Cardinality(cleared))
    /\ [][\A t \in Threads : StepFrom(t, "size_cs") =>
            /\ m_ = t
            /\ ret' = [t |-> t, op |-> "size", v |-> Len(q_)]
            /\ ret'.v = Len(appended) - Len(popped) - Cardinality(cleared)]_vars
    /\ [][\A t \in Threads : StepFrom(t, "stopped_cs") =>
            /\ m_ = t
            /\ ret' = [t |-> t, op |-> "stopped", v |-> IF stopped_ THEN 1 ELSE 0]]_vars
    /\ [][\A t \in Threads :
            (pc'[t] # pc[t] /\ (pc[t] \in ObserverPcs \/ pc'[t] \in ObserverPcs)) =>
                /\ queue' = queue /\ cv_' = cv_
                /\ appended' = appended /\ popped' = popped /\ cleared' = cleared
                /\ dropped' = dropped]_vars

\* size() has returned 1 after two items were appended and one was popped.
C19_Witness ==
    /\ ret.op = "size" /\ ret.v = 1
    /\ Len(appended) = 2 /\ Len(popped) = 1 /\ q_ = <<2>>
====
